---- MODULE Spec2Model ----
(***************************************************************************)
(* A model of pega.core.abc.BasePlayer: the voice-credential handlers      *)
(* (_voice_server_update, _voice_state_update, _dispatch_voice_update),    *)
(* the play_track coroutine and destroy, with the managers the player      *)
(* calls into (PlayerManager, NodeManager, the client's event dispatch),   *)
(* and of the listener decorator of pega.                                  *)
(*                                                                         *)
(* Python values are modelled as follows.  An Optional value is a sequence *)
(* of length at most one: None is <<>> and the value x is <<x>>.  A dict   *)
(* is a function whose DOMAIN is the set of keys the dict holds.  An       *)
(* argument of play_track is MISSING or a value tagged with its type.      *)
(*                                                                         *)
(* A step of the model is the code a coroutine runs between two awaits.    *)
(* What a step hands to the outside is left in cmd (node.update_player),   *)
(* event (client._dispatch_event) and ret (the caller) until the next      *)
(* step; arg holds the arguments of the call a step began.                 *)
(***************************************************************************)
EXTENDS Integers, Sequences, FiniteSets, TLC

(***************************************************************************)
(* Bounds of the model.                                                    *)
(***************************************************************************)
NumSessions == 2
NumEndpoints == 1
NumTokens == 1
MaxCalls == 2
NumRooms == 3
NumNodes == 2
MaxDestroys == 2
NumListeners == 3

VARIABLES
    channel_id,     \* BasePlayer.channel_id
    _voice_state,   \* BasePlayer._voice_state
    current,        \* BasePlayer.current
    _next,          \* BasePlayer._next
    calls,          \* the play_track coroutines: where each is, and its locals
    cmd,            \* the update_player call the last step made (None: none)
    event,          \* the event the last step dispatched (None: none)
    ret,            \* what the last step returned or raised to its caller (None: nothing)
    arg,            \* the arguments of the play_track call the last step began (None: none)
    node_voice,     \* the voice state of the last update_player call the node accepted
    last,           \* the credential handler that ran last: its data and what it did
    players,        \* PlayerManager: the room ids that have a player
    destroys,       \* the number of destroy() calls made on the player
    available,      \* NodeManager: for each registered node, whether it is available
    binding,        \* for each room, the node its player is bound to (0: none)
    migrated,       \* for each room, the change_node calls the last step made on its player
    selected,       \* the node select_node gave its caller in the last step (0: it failed)
    hooks,          \* the client's event hooks: for each listener, the function registered
    delivered       \* the listeners the last step's dispatch invoked (None: no dispatch)

\* what belongs to the managers
world == <<players, destroys, available, binding, migrated, selected, hooks, delivered>>

vars == <<channel_id, _voice_state, current, _next, calls, cmd, event, ret, arg,
          node_voice, last, world>>

None == <<>>
Some(x) == <<x>>

(***************************************************************************)
(* dict operations                                                         *)
(***************************************************************************)
EmptyDict == [k \in {} |-> None]

\* dict.get(key): the value, or None when the key is missing
Get(d, k) == IF k \in DOMAIN d THEN d[k] ELSE None

\* (mutant) the dict is replaced by the keys given
DictReplace(d, upd) == upd

\* dict.update(k1=v1, ...): upd is a function over the keys given
DictUpdate(d, upd) ==
    [k \in DOMAIN d \cup DOMAIN upd |-> IF k \in DOMAIN upd THEN upd[k] ELSE d[k]]

\* (mutant) only the session id is dropped
DictClearSessionOnly(d) == [k \in DOMAIN d \ {"sessionId"} |-> d[k]]

\* dict.clear(): no key is left
DictClear(d) == EmptyDict

(***************************************************************************)
(* The credential handlers.                                                *)
(***************************************************************************)
SessionIds == {Some(i) : i \in 1..NumSessions}
Endpoints == {Some(i) : i \in 1..NumEndpoints}
Tokens == {Some(i) : i \in 1..NumTokens}
RawChannelIds == {None, Some(""), Some("0"), Some("7")}

VoiceServerUpdateData ==
    [endpoint : Endpoints \cup {None}, token : Tokens]
VoiceStateUpdateData ==
    [channel_id : RawChannelIds, session_id : SessionIds \cup {None}]

VoiceKeys == {"sessionId", "endpoint", "token"}

\* int(s) for the decimal strings of RawChannelIds
IntOf(s) == CASE s = "0" -> 0 [] s = "7" -> 7

\* bool(raw_channel_id): None and the empty string are falsy
Truthy(raw) == raw # None /\ raw # Some("")

\* self.channel_id = int(raw_channel_id) if raw_channel_id else None
ChannelIdOf(raw) == IF Truthy(raw) THEN Some(IntOf(raw[1])) ELSE None

\* not self.channel_id: None and 0 are falsy
NoChannel(ch) == ch = None \/ ch = Some(0)

\* (mutant) the session id is stored and dispatched without comparing it
SessionChangedAlways(data, vs) == TRUE

\* data["session_id"] != self._voice_state.get("sessionId")
SessionChanged(data, vs) == data.session_id # Get(vs, "sessionId")

\* (mutant) the key check forgets the session id
_dispatch_voice_update_no_session(vs) ==
    IF {"endpoint", "token"} \subseteq DOMAIN vs
    THEN Some([kind |-> "voice", voice_state |-> vs])
    ELSE None

\* (mutant) the key check accepts any stored key
_dispatch_voice_update_any_key(vs) ==
    IF DOMAIN vs # {}
    THEN Some([kind |-> "voice", voice_state |-> vs])
    ELSE None

\* _dispatch_voice_update: the update_player call it makes, or None
_dispatch_voice_update(vs) ==
    IF VoiceKeys = DOMAIN vs
    THEN Some([kind |-> "voice", voice_state |-> vs])
    ELSE None

\* The record of a handler run. seq tells one run from the next; before is the
\* player, and the node, as the handler found them; replay says that the run
\* before had the same handler and data; prev says which handler ran before
\* and whether it found a player without credentials.
Record(op, data, c, ok) ==
    [seq |-> 1 - last.seq, op |-> op, data |-> data,
     before |-> [channel_id |-> channel_id, voice_state |-> _voice_state,
                 node_voice |-> node_voice],
     cmd |-> c, ok |-> ok,
     replay |-> (last.op = op /\ last.data = data),
     prev |-> [op |-> last.op, fresh |-> DOMAIN last.before.voice_state = {}]]

NoHandler ==
    [seq |-> 0, op |-> "none", data |-> None,
     before |-> [channel_id |-> None, voice_state |-> EmptyDict, node_voice |-> None],
     cmd |-> None, ok |-> TRUE,
     replay |-> FALSE,
     prev |-> [op |-> "none", fresh |-> TRUE]]

\* await self.node.update_player(...) in a handler: the call returns (ok) or
\* raises, and the handler with it; without a call the handler returns
AwaitUpdatePlayer(c, ok) ==
    /\ c = None => ok
    /\ cmd' = c
    /\ ret' = IF ok THEN Some("return None") ELSE Some("RequestError")
    /\ node_voice' = IF c # None /\ ok THEN Some(c[1].voice_state) ELSE node_voice

_voice_server_update(data, ok) ==
    LET vs == DictUpdate(_voice_state,
                  [k \in {"endpoint", "token"} |->
                      IF k = "endpoint" THEN data.endpoint ELSE data.token])
        c == _dispatch_voice_update(vs)
    IN /\ _voice_state' = vs
       /\ AwaitUpdatePlayer(c, ok)
       /\ last' = Record("server", data, c, ok)
       /\ event' = None
       /\ arg' = None
       /\ UNCHANGED <<channel_id, current, _next, calls, world>>

\* (mutant) the handler goes on after clearing the credentials
_voice_state_update_no_return(data, ok) ==
    LET ch == ChannelIdOf(data.channel_id)
        cleared == IF NoChannel(ch) THEN DictClear(_voice_state) ELSE _voice_state
        changed == SessionChanged(data, cleared)
        vs == IF changed
              THEN DictUpdate(cleared, [k \in {"sessionId"} |-> data.session_id])
              ELSE cleared
        c == IF changed THEN _dispatch_voice_update(vs) ELSE None
    IN /\ channel_id' = ch
       /\ _voice_state' = vs
       /\ AwaitUpdatePlayer(c, ok)
       /\ last' = Record("state", data, c, ok)
       /\ event' = None
       /\ arg' = None
       /\ UNCHANGED <<current, _next, calls, world>>

_voice_state_update(data, ok) ==
    LET ch == ChannelIdOf(data.channel_id)
        changed == ~NoChannel(ch) /\ SessionChanged(data, _voice_state)
        vs == IF NoChannel(ch) THEN DictClear(_voice_state)
              ELSE IF changed
                   THEN DictUpdate(_voice_state,
                            [k \in {"sessionId"} |-> data.session_id])
                   ELSE _voice_state
        c == IF changed THEN _dispatch_voice_update(vs) ELSE None
    IN /\ channel_id' = ch
       /\ _voice_state' = vs
       /\ AwaitUpdatePlayer(c, ok)
       /\ last' = Record("state", data, c, ok)
       /\ event' = None
       /\ arg' = None
       /\ UNCHANGED <<current, _next, calls, world>>

(***************************************************************************)
(* play_track                                                              *)
(***************************************************************************)
MISSING == <<"MISSING">>
PyInt(n) == <<"int", n>>
PyBool(b) == <<"bool", b>>
PyStr(x) == <<"str", x>>

\* isinstance(v, int): bool is a subclass of int
IsInstanceInt(v) == v[1] \in {"int", "bool"}
\* isinstance(v, bool)
IsInstanceBool(v) == v[1] = "bool"
\* the number a value compares as
IntVal(v) == IF v[1] = "bool" THEN (IF v[2] THEN 1 ELSE 0) ELSE v[2]

Min(a, b) == IF a <= b THEN a ELSE b
Max(a, b) == IF a >= b THEN a ELSE b

VolumeMax == 1000

\* (mutant) the lower clamp is forgotten
ClampVolumeNoFloor(v) == Min(v, VolumeMax)

\* max(min(volume, 1000), 0)
ClampVolume(v) == Max(Min(v, VolumeMax), 0)

\* 0 > start_time
StartTimeRejected(v) == 0 > v

\* (mutant) the end time is checked against 0, like the start time
EndTimeRejectedBelowZero(v) == 0 > v

\* 1 > end_time
EndTimeRejected(v) == 1 > v

Calls == 1..MaxCalls

\* An AudioTrack: its class, its identity, track (the playable payload, or None)
\* and user_data. "object" is a value that is no AudioTrack at all.
Tracks == {
    [cls |-> "AudioTrack", id |-> "a1", track |-> Some("a1"), user_data |-> None],
    [cls |-> "AudioTrack", id |-> "a0", track |-> None, user_data |-> None],
    [cls |-> "DeferredAudioTrack", id |-> "d1", track |-> None, user_data |-> Some("u1")],
    [cls |-> "DeferredAudioTrack", id |-> "d2", track |-> Some("d2"), user_data |-> None],
    [cls |-> "object", id |-> "x", track |-> None, user_data |-> None] }

TrackOf(id) == CHOOSE t \in Tracks : t.id = id

\* isinstance(track, AudioTrack): DeferredAudioTrack is a subclass
IsAudioTrack(t) == t.cls \in {"AudioTrack", "DeferredAudioTrack"}
IsDeferred(t) == t.cls = "DeferredAudioTrack"

StartTimes == {MISSING, PyInt(-1), PyInt(0), PyStr("x")}
EndTimes == {MISSING, PyInt(0), PyInt(1)}
NoReplaces == {MISSING, PyBool(TRUE)}
Volumes == {MISSING, PyInt(-1), PyInt(500), PyInt(VolumeMax + 1)}
Pauses == {MISSING, PyBool(FALSE)}

AllArgs == [track : Tracks, start_time : StartTimes, end_time : EndTimes,
            no_replace : NoReplaces, volume : Volumes, pause : Pauses]

NumGiven(a) ==
    Cardinality({k \in {"start_time", "end_time", "no_replace", "volume", "pause"} :
                    a[k] # MISSING})

\* The calls made: any track without options, the track a1 with one option,
\* and the deferred track d1 with all of them and a volume below zero.
PlayArgs ==
    {a \in AllArgs : \/ NumGiven(a) = 0
                     \/ a.track.id = "a1" /\ NumGiven(a) = 1
                     \/ /\ a.track.id = "d1"
                        /\ NumGiven(a) = 5
                        /\ a.volume = PyInt(-1)}

\* what track.load(client) can do: raise LoadError, return None, return a payload
LoadOutcomes == {[raised |-> TRUE, value |-> None],
                 [raised |-> FALSE, value |-> None],
                 [raised |-> FALSE, value |-> Some("p1")],
                 [raised |-> FALSE, value |-> Some("p2")]}

\* options[key] = value when the argument is given
SetIfGiven(options, key, given, value) ==
    IF given = MISSING THEN options ELSE DictUpdate(options, [k \in {key} |-> value])

\* The first check of lines 182-214 that fails, or "" when the arguments pass
ValidationError(a) ==
    CASE ~IsAudioTrack(a.track) -> "ValueError: track"
      [] a.start_time # MISSING /\ ~IsInstanceInt(a.start_time) -> "ValueError: start_time"
      [] a.start_time # MISSING /\ IsInstanceInt(a.start_time)
            /\ StartTimeRejected(IntVal(a.start_time)) -> "ValueError: start_time"
      [] a.end_time # MISSING /\ ~IsInstanceInt(a.end_time) -> "ValueError: end_time"
      [] a.end_time # MISSING /\ IsInstanceInt(a.end_time)
            /\ EndTimeRejected(IntVal(a.end_time)) -> "ValueError: end_time"
      [] a.no_replace # MISSING /\ ~IsInstanceBool(a.no_replace) -> "TypeError: no_replace"
      [] a.volume # MISSING /\ ~IsInstanceInt(a.volume) -> "TypeError: volume"
      [] a.pause # MISSING /\ ~IsInstanceBool(a.pause) -> "TypeError: pause"
      [] OTHER -> ""

\* The options dict of lines 185-214, for arguments that pass the checks
BuildOptions(a) ==
    LET o1 == SetIfGiven(EmptyDict, "position", a.start_time, a.start_time)
        o2 == SetIfGiven(o1, "end_time", a.end_time, a.end_time)
        o3 == SetIfGiven(o2, "no_replace", a.no_replace, a.no_replace)
        o4 == SetIfGiven(o3, "volume", a.volume,
                  IF a.volume = MISSING THEN MISSING
                  ELSE PyInt(ClampVolume(IntVal(a.volume))))
    IN SetIfGiven(o4, "paused", a.pause, a.pause)

\* lines 240-241: the track's user data, unless the caller gave some
WithUserData(options, t) ==
    IF "user_data" \notin DOMAIN options /\ t.user_data # None
    THEN DictUpdate(options, [k \in {"user_data"} |-> t.user_data])
    ELSE options

\* lines 243-245: the update_player call of play_track
PlayCommand(t, playable_track, options) ==
    Some([kind |-> "play", track |-> t.id, encoded_track |-> playable_track,
          options |-> WithUserData(options, t)])

TrackLoadFailedEvent(t, error) ==
    Some([kind |-> "TrackLoadFailedEvent", track |-> t.id, error |-> error])

\* A coroutine: pc is where it is ("idle": not running, "load": awaiting
\* track.load, "send": awaiting update_player); track and options are its
\* locals; loads counts its track.load calls.
IdleCall == [pc |-> "idle", track |-> None, options |-> EmptyDict, loads |-> 0]

\* (mutant) the pending track is recorded only once the node has answered
SetNextAfterSend(c, t, playable_track, options, loads) ==
    /\ UNCHANGED _next
    /\ cmd' = PlayCommand(t, playable_track, options)
    /\ event' = None
    /\ ret' = None
    /\ calls' = [calls EXCEPT ![c] =
           [pc |-> "send", track |-> Some(t.id), options |-> EmptyDict, loads |-> loads]]

\* lines 238-243: record the track as pending, then hand the command to the node
SetNextAndSend(c, t, playable_track, options, loads) ==
    /\ _next' = Some(t.id)
    /\ cmd' = PlayCommand(t, playable_track, options)
    /\ event' = None
    /\ ret' = None
    /\ calls' = [calls EXCEPT ![c] =
           [pc |-> "send", track |-> Some(t.id), options |-> EmptyDict, loads |-> loads]]

\* (mutant) a call that ends early also drops the pending track
FinishDropsNext(c, result, ev) ==
    /\ cmd' = None
    /\ event' = ev
    /\ ret' = Some(result)
    /\ calls' = [calls EXCEPT ![c] = IdleCall]
    /\ _next' = None

\* play_track returns or raises without having called the node
Finish(c, result, ev) ==
    /\ cmd' = None
    /\ event' = ev
    /\ ret' = Some(result)
    /\ calls' = [calls EXCEPT ![c] = IdleCall]
    /\ UNCHANGED _next

\* play_track from its call to its first await, return or raise (lines 182-243)
play_track(c, a) ==
    /\ calls[c].pc = "idle"
    /\ LET t == a.track
           err == ValidationError(a)
       IN IF err # ""
          THEN Finish(c, err, None)
          ELSE IF t.track = None /\ ~IsDeferred(t)
          THEN Finish(c, "InvalidTrack", None)
          ELSE IF t.track = None
          THEN /\ calls' = [calls EXCEPT ![c] =
                      [pc |-> "load", track |-> Some(t.id), options |-> BuildOptions(a),
                       loads |-> 1]]
               /\ cmd' = None
               /\ event' = None
               /\ ret' = None
               /\ UNCHANGED _next
          ELSE SetNextAndSend(c, t, t.track[1], BuildOptions(a), 0)
    /\ arg' = Some(a)
    /\ UNCHANGED <<channel_id, _voice_state, current, node_voice, last, world>>

\* (mutant) a load that yields no payload is tried a second time
play_track_loaded_retries(c, r) ==
    /\ calls[c].pc = "load"
    /\ LET t == TrackOf(calls[c].track[1])
       IN IF r.raised
          THEN Finish(c, "return None", TrackLoadFailedEvent(t, Some("LoadError")))
          ELSE IF r.value = None /\ calls[c].loads < 2
          THEN /\ calls' = [calls EXCEPT ![c].loads = calls[c].loads + 1]
               /\ cmd' = None
               /\ event' = None
               /\ ret' = None
               /\ UNCHANGED _next
          ELSE IF r.value = None
          THEN Finish(c, "return None", TrackLoadFailedEvent(t, None))
          ELSE SetNextAndSend(c, t, r.value[1], calls[c].options, calls[c].loads)
    /\ arg' = None
    /\ UNCHANGED <<channel_id, _voice_state, current, node_voice, last, world>>

\* play_track from the end of track.load to its next await or return (lines 225-243)
play_track_loaded(c, r) ==
    /\ calls[c].pc = "load"
    /\ LET t == TrackOf(calls[c].track[1])
       IN IF r.raised
          THEN Finish(c, "return None", TrackLoadFailedEvent(t, Some("LoadError")))
          ELSE IF r.value = None
          THEN Finish(c, "return None", TrackLoadFailedEvent(t, None))
          ELSE SetNextAndSend(c, t, r.value[1], calls[c].options, calls[c].loads)
    /\ arg' = None
    /\ UNCHANGED <<channel_id, _voice_state, current, node_voice, last, world>>

\* (mutant) the pending track is dropped when the node has answered
play_track_sent_clears_next(c, ok) ==
    /\ calls[c].pc = "send"
    /\ calls' = [calls EXCEPT ![c] = IdleCall]
    /\ ret' = IF ok THEN Some("return RawPlayer") ELSE Some("RequestError")
    /\ cmd' = None
    /\ event' = None
    /\ arg' = None
    /\ _next' = IF ok THEN None ELSE _next
    /\ UNCHANGED <<channel_id, _voice_state, current, node_voice, last, world>>

\* (mutant) a rejected command puts the pending track back to none
play_track_sent_rolls_back(c, ok) ==
    /\ calls[c].pc = "send"
    /\ calls' = [calls EXCEPT ![c] = IdleCall]
    /\ ret' = IF ok THEN Some("return RawPlayer") ELSE Some("RequestError")
    /\ cmd' = None
    /\ event' = None
    /\ arg' = None
    /\ _next' = IF ok THEN _next ELSE None
    /\ UNCHANGED <<channel_id, _voice_state, current, node_voice, last, world>>

\* (mutant) the answer of the node makes the track the current one
play_track_sent_sets_current(c, ok) ==
    /\ calls[c].pc = "send"
    /\ calls' = [calls EXCEPT ![c] = IdleCall]
    /\ ret' = IF ok THEN Some("return RawPlayer") ELSE Some("RequestError")
    /\ cmd' = None
    /\ event' = None
    /\ arg' = None
    /\ current' = IF ok THEN calls[c].track ELSE current
    /\ UNCHANGED <<channel_id, _voice_state, _next, node_voice, last, world>>

\* play_track from the end of update_player to its return or raise (lines 243-246)
play_track_sent(c, ok) ==
    /\ calls[c].pc = "send"
    /\ calls' = [calls EXCEPT ![c] = IdleCall]
    /\ ret' = IF ok THEN Some("return RawPlayer") ELSE Some("RequestError")
    /\ cmd' = None
    /\ event' = None
    /\ arg' = None
    /\ UNCHANGED <<channel_id, _voice_state, current, _next, node_voice, last, world>>

\* The push notification that a track started: the pending track becomes the
\* current one; a notification for any other track is ignored.
handle_event(id) ==
    /\ IF _next = Some(id)
       THEN current' = Some(id) /\ _next' = None
       ELSE UNCHANGED <<current, _next>>
    /\ cmd' = None
    /\ event' = None
    /\ ret' = None
    /\ arg' = None
    /\ UNCHANGED <<channel_id, _voice_state, node_voice, last, calls, world>>

(***************************************************************************)
(* The specifications.                                                     *)
(***************************************************************************)
\* The rooms of the PlayerManager and the nodes of the NodeManager, the nodes
\* in the order of their registration
Rooms == 1..NumRooms
Nodes == 1..NumNodes

\* BasePlayer.guild_id: the room of the player whose fields the model holds
GuildId == 1

\* The methods the host may register as listeners
Listeners == 1..NumListeners

\* Every room has its player, bound to the node registered first; all nodes
\* are available
InitWorld ==
    /\ players = Rooms
    /\ destroys = 0
    /\ available = [n \in Nodes |-> TRUE]
    /\ binding = [r \in Rooms |-> 1]
    /\ migrated = [r \in Rooms |-> 0]
    /\ selected = None
    /\ hooks = [l \in Listeners |-> None]
    /\ delivered = None

(***************************************************************************)
(* destroy                                                                 *)
(***************************************************************************)
\* PlayerManager.destroy(room): the room leaves the map and its player
\* releases its node; a room that has no player is left alone, without error
PlayerManagerDestroy(room) ==
    IF room \in players
    THEN /\ players' = players \ {room}
         /\ binding' = [binding EXCEPT ![room] = 0]
    ELSE UNCHANGED <<players, binding>>

\* (mutant) a player that is no longer in the map cannot be destroyed again
destroy_raises_when_gone ==
    /\ destroys < MaxDestroys
    /\ destroys' = destroys + 1
    /\ PlayerManagerDestroy(GuildId)
    /\ ret' = IF GuildId \in players THEN Some("return None") ELSE Some("KeyError")
    /\ cmd' = None
    /\ event' = None
    /\ arg' = None
    /\ UNCHANGED <<channel_id, _voice_state, current, _next, calls, node_voice, last,
                   available, migrated, selected, hooks, delivered>>

\* BasePlayer.destroy: await self.client.player_manager.destroy(self.guild_id)
destroy ==
    /\ destroys < MaxDestroys
    /\ destroys' = destroys + 1
    /\ PlayerManagerDestroy(GuildId)
    /\ ret' = Some("return None")
    /\ cmd' = None
    /\ event' = None
    /\ arg' = None
    /\ UNCHANGED <<channel_id, _voice_state, current, _next, calls, node_voice, last,
                   available, migrated, selected, hooks, delivered>>

(***************************************************************************)
(* NodeManager and PlayerManager: selection, creation, failover.           *)
(***************************************************************************)
\* the players bound to node n under the bindings b
PlayerCount(n, b) == Cardinality({r \in Rooms : b[r] = n})

RECURSIVE SelectFromTiesLast(_, _, _, _)
\* (mutant) a later node with the same player count replaces the best so far
SelectFromTiesLast(n, best, avail, b) ==
    IF n > NumNodes THEN best
    ELSE IF avail[n] /\ (best = 0 \/ PlayerCount(n, b) <= PlayerCount(best, b))
         THEN SelectFromTiesLast(n + 1, n, avail, b)
         ELSE SelectFromTiesLast(n + 1, best, avail, b)

RECURSIVE SelectFrom(_, _, _, _)
\* The scan of the nodes n, n+1, ... in registration order; best is the node
\* kept so far (0: none). An available node replaces it when it has fewer
\* players.
SelectFrom(n, best, avail, b) ==
    IF n > NumNodes THEN best
    ELSE IF avail[n] /\ (best = 0 \/ PlayerCount(n, b) < PlayerCount(best, b))
         THEN SelectFrom(n + 1, n, avail, b)
         ELSE SelectFrom(n + 1, best, avail, b)

\* NodeManager.selectNode: the node chosen (0: no available node)
select_node(avail, b) == SelectFrom(1, 0, avail, b)

\* what the ports hold after a step of the managers
ManagerReturns(result) ==
    /\ ret' = Some(result)
    /\ cmd' = None
    /\ event' = None
    /\ arg' = None
    /\ UNCHANGED <<channel_id, _voice_state, current, _next, calls, node_voice, last,
                   destroys, hooks, delivered>>

\* a caller asks NodeManager.selectNode for a node
select_node_call ==
    LET n == select_node(available, binding)
    IN /\ selected' = Some(n)
       /\ ManagerReturns(IF n = 0 THEN "NoAvailableNode" ELSE "return Node")
       /\ UNCHANGED <<players, available, binding, migrated>>

\* PlayerManager.getOrCreate(room): the player of the room; on first access
\* it is created on the node NodeManager selects
get_or_create(room) ==
    IF room \in players
    THEN /\ ManagerReturns("return Player")
         /\ selected' = None
         /\ UNCHANGED <<players, available, binding, migrated>>
    ELSE LET n == select_node(available, binding)
         IN /\ selected' = Some(n)
            /\ IF n = 0
               THEN /\ ManagerReturns("NoAvailableNode")
                    /\ UNCHANGED <<players, binding>>
               ELSE /\ ManagerReturns("return Player")
                    /\ players' = players \cup {room}
                    /\ binding' = [binding EXCEPT ![room] = n]
            /\ migrated' = [r \in Rooms |-> 0]
            /\ UNCHANGED available

\* PlayerManager.destroy(room) called by the host
player_manager_destroy(room) ==
    /\ PlayerManagerDestroy(room)
    /\ ManagerReturns("return None")
    /\ selected' = None
    /\ migrated' = [r \in Rooms |-> 0]
    /\ UNCHANGED available

RECURSIVE Migrate(_, _, _, _, _)
\* NodeManager moving the players of the failed node, room after room from
\* room r on: each gets a freshly selected node and its change_node is
\* called; without an available node the player is left without a node.
\* b and m are the bindings and the change_node calls so far.
Migrate(r, failed, avail, b, m) ==
    IF r > NumRooms THEN [binding |-> b, migrated |-> m]
    ELSE IF b[r] # failed THEN Migrate(r + 1, failed, avail, b, m)
    ELSE LET n == select_node(avail, b)
         IN IF n = 0
            THEN Migrate(r + 1, failed, avail, [b EXCEPT ![r] = 0], m)
            ELSE Migrate(r + 1, failed, avail, [b EXCEPT ![r] = n],
                         [m EXCEPT ![r] = m[r] + 1])

\* (mutant) the replacements are selected before the node is marked unavailable
node_unavailable_marks_late(n) ==
    /\ available[n]
    /\ available' = [available EXCEPT ![n] = FALSE]
    /\ LET out == Migrate(1, n, available, binding, [r \in Rooms |-> 0])
       IN /\ binding' = out.binding
          /\ migrated' = out.migrated
    /\ ManagerReturns("return None")
    /\ selected' = None
    /\ UNCHANGED players

\* The node n is marked unavailable: NodeManager migrates every player bound
\* to it (the players' node_unavailable / change_node path)
node_unavailable(n) ==
    /\ available[n]
    /\ available' = [available EXCEPT ![n] = FALSE]
    /\ LET out == Migrate(1, n, available', binding, [r \in Rooms |-> 0])
       IN /\ binding' = out.binding
          /\ migrated' = out.migrated
    /\ ManagerReturns("return None")
    /\ selected' = None
    /\ UNCHANGED players

\* The node n is available again
node_available(n) ==
    /\ ~available[n]
    /\ available' = [available EXCEPT ![n] = TRUE]
    /\ migrated' = [r \in Rooms |-> 0]
    /\ ManagerReturns("return None")
    /\ selected' = None
    /\ UNCHANGED <<players, binding>>

(***************************************************************************)
(* Listeners and event dispatch.                                           *)
(***************************************************************************)
\* the classes of the events dispatched
EventKinds == {"TrackStartEvent", "TrackLoadFailedEvent"}

\* the tuples a method can be decorated with: listener(), listener(A),
\* listener(B), listener(A, B)
EventTuples ==
    {<<>>, <<"TrackStartEvent">>, <<"TrackLoadFailedEvent">>,
     <<"TrackStartEvent", "TrackLoadFailedEvent">>}

\* the elements of a tuple
Elements(t) == {t[i] : i \in 1..Len(t)}

\* A method before it is decorated: declared is the interest its author
\* states, raises whether it raises when it is invoked
Methods == [declared : EventTuples, raises : BOOLEAN, _pegasus_events : {None}]

\* (mutant) the decorator drops its arguments
listener_drops_events(events, func) ==
    [func EXCEPT !._pegasus_events = Some(<<>>)]

\* listener(*events)(func): setattr(func, "_pegasus_events", events); return func
listener(events, func) ==
    [func EXCEPT !._pegasus_events = Some(events)]

\* Client.add_event_hooks: the decorated method is registered as hook l
add_event_hooks(l, m) ==
    /\ hooks' = [hooks EXCEPT ![l] = Some(listener(m.declared, m))]
    /\ delivered' = None
    /\ ret' = Some("return None")
    /\ cmd' = None
    /\ event' = None
    /\ arg' = None
    /\ UNCHANGED <<channel_id, _voice_state, current, _next, calls, node_voice, last,
                   players, destroys, available, binding, migrated, selected>>

\* the hook matches the event: it listens to all events or to this class
Matches(func, kind) ==
    \/ func._pegasus_events[1] = <<>>
    \/ kind \in Elements(func._pegasus_events[1])

RECURSIVE InvokeStopsAtError(_, _, _)
\* (mutant) the error of a listener ends the dispatch and reaches the caller
InvokeStopsAtError(l, kind, got) ==
    IF l > NumListeners THEN [delivered |-> got, raised |-> FALSE]
    ELSE IF hooks[l] # None /\ Matches(hooks[l][1], kind)
         THEN IF hooks[l][1].raises
              THEN [delivered |-> got \cup {l}, raised |-> TRUE]
              ELSE InvokeStopsAtError(l + 1, kind, got \cup {l})
         ELSE InvokeStopsAtError(l + 1, kind, got)

RECURSIVE Invoke(_, _, _)
\* The dispatch loop from hook l on: each matching hook is invoked; an error
\* it raises is caught and reported, and the loop goes on. got are the hooks
\* invoked so far; raised says whether an error left the loop.
Invoke(l, kind, got) ==
    IF l > NumListeners THEN [delivered |-> got, raised |-> FALSE]
    ELSE IF hooks[l] # None /\ Matches(hooks[l][1], kind)
         THEN Invoke(l + 1, kind, got \cup {l})
         ELSE Invoke(l + 1, kind, got)

\* Client._dispatch_event(event)
_dispatch_event(kind) ==
    LET out == Invoke(1, kind, {})
    IN /\ delivered' = Some(out.delivered)
       /\ ret' = IF out.raised THEN Some("ListenerError") ELSE Some("return None")
       /\ event' = Some([kind |-> kind, track |-> "a1", error |-> None])
       /\ cmd' = None
       /\ arg' = None
       /\ UNCHANGED <<channel_id, _voice_state, current, _next, calls, node_voice, last,
                      players, destroys, available, binding, migrated, selected, hooks>>

\* BasePlayer.__init__
Init ==
    /\ channel_id = None
    /\ _voice_state = EmptyDict
    /\ current = None
    /\ _next = None
    /\ calls = [c \in Calls |-> IdleCall]
    /\ cmd = None
    /\ event = None
    /\ ret = None
    /\ arg = None
    /\ node_voice = None
    /\ last = NoHandler
    /\ InitWorld

VoiceServerUpdate ==
    \E data \in VoiceServerUpdateData, ok \in BOOLEAN : _voice_server_update(data, ok)

VoiceStateUpdate ==
    \E data \in VoiceStateUpdateData, ok \in BOOLEAN : _voice_state_update(data, ok)

PlayTrack == \E c \in Calls, a \in PlayArgs : play_track(c, a)
PlayTrackLoaded == \E c \in Calls, r \in LoadOutcomes : play_track_loaded(c, r)
PlayTrackSent == \E c \in Calls, ok \in BOOLEAN : play_track_sent(c, ok)
HandleEvent == \E t \in Tracks : IsAudioTrack(t) /\ handle_event(t.id)

\* The host gateway feeding credential updates to one player
NextVoice == VoiceServerUpdate \/ VoiceStateUpdate
SpecVoice == Init /\ [][NextVoice]_vars

\* The life of one player: its host plays tracks, feeds it credentials and
\* destroys it
LifeArgs == {a \in PlayArgs : NumGiven(a) = 0 /\ a.track.id \in {"a1", "d1"}}
LifeServerData == {d \in VoiceServerUpdateData : d.endpoint = Some(1)}
LifeStateData ==
    {d \in VoiceStateUpdateData : d.channel_id \in {None, Some("7")} /\ d.session_id = Some(1)}
LifePlayTrack == \E a \in LifeArgs : play_track(1, a)
LifeVoiceServerUpdate == \E data \in LifeServerData : _voice_server_update(data, TRUE)
LifeVoiceStateUpdate == \E data \in LifeStateData : _voice_state_update(data, TRUE)
NextLife ==
    \/ destroy
    \/ LifePlayTrack
    \/ PlayTrackLoaded
    \/ PlayTrackSent
    \/ LifeVoiceServerUpdate
    \/ LifeVoiceStateUpdate
SpecLife == Init /\ [][NextLife]_vars

\* The managers: rooms get players and lose them, nodes fail and come back
GetOrCreate == \E room \in Rooms : get_or_create(room)
PlayerManagerDestroyCall == \E room \in Rooms : player_manager_destroy(room)
NodeUnavailable == \E n \in Nodes : node_unavailable(n)
NodeAvailable == \E n \in Nodes : node_available(n)
NextNodes ==
    \/ select_node_call
    \/ GetOrCreate
    \/ PlayerManagerDestroyCall
    \/ NodeUnavailable
    \/ NodeAvailable
SpecNodes == Init /\ [][NextNodes]_vars

\* The host registers listeners; events are dispatched to them
AddEventHooks == \E l \in Listeners, m \in Methods : add_event_hooks(l, m)
DispatchEvent == \E kind \in EventKinds : _dispatch_event(kind)
NextEvents == AddEventHooks \/ DispatchEvent
SpecEvents == Init /\ [][NextEvents]_vars

\* The credentials of a player whose voice handshake is complete
ConnectedVoiceState ==
    [k \in VoiceKeys |-> Some(1)]

\* play_track is first called on a player as constructed, or on one whose
\* voice handshake has completed and was accepted by the node
InitPlay ==
    /\ \/ channel_id = None /\ _voice_state = EmptyDict /\ node_voice = None
       \/ /\ channel_id = Some(7)
          /\ _voice_state = ConnectedVoiceState
          /\ node_voice = Some(ConnectedVoiceState)
    /\ current = None
    /\ _next = None
    /\ calls = [c \in Calls |-> IdleCall]
    /\ cmd = None
    /\ event = None
    /\ ret = None
    /\ arg = None
    /\ last = NoHandler
    /\ InitWorld

\* Callers of play_track, the node answering and pushing notifications
NextPlay == PlayTrack \/ PlayTrackLoaded \/ PlayTrackSent \/ HandleEvent
SpecPlay == InitPlay /\ [][NextPlay]_vars

(***************************************************************************)
(* Properties of the credential handlers (under SpecVoice), stated over    *)
(* the handler that ran last and the player's fields after it.             *)
(***************************************************************************)
Handled == last.op # "none"
Sent(h) == h.cmd # None
Complete(vs) == DOMAIN vs = VoiceKeys
AllKnown(vs) == Complete(vs) /\ \A k \in VoiceKeys : vs[k] # None
Triple(s, e, t) ==
    [k \in VoiceKeys |->
        CASE k = "sessionId" -> s [] k = "endpoint" -> e [] k = "token" -> t]
VoiceCommand(vs) == Some([kind |-> "voice", voice_state |-> vs])

C2_NoPartialCredentials ==
    (cmd # None /\ cmd[1].kind = "voice") => AllKnown(cmd[1].voice_state)

\* C3: a gateway-state update whose channel id is absent (None, or the empty
\* string, which the code treats alike) leaves channel_id None and the stored
\* credentials empty, and hands no command to the node.
C3_DisconnectClears ==
    (last.op = "state" /\ ~Truthy(last.data.channel_id)) =>
        /\ channel_id = None
        /\ DOMAIN _voice_state = {}
        /\ last.cmd = None
        /\ cmd = None

\* C3 witness: a disconnect arrived while the full triple was stored
C3_DisconnectedFromComplete ==
    /\ last.op = "state"
    /\ last.data.channel_id = None
    /\ AllKnown(last.before.voice_state)
    /\ last.before.channel_id # None

\* The gateway-state update of C4: its channel id is present, it has a session id
C4_StateData(data) == ~NoChannel(ChannelIdOf(data.channel_id)) /\ data.session_id # None

\* C4: when a player without credentials gets one server-credential update
\* {e, t} and one gateway-state update {c present, s}, in either order, the
\* first sends no command and the second sends one command, carrying
\* {sessionId s, endpoint e, token t}. The step is the second update; last is
\* the first update before the step and the second after it.
C4_OneCommandAfterSecond ==
    [][(last'.seq # last.seq /\ DOMAIN last.before.voice_state = {}) =>
         /\ (last.op = "server" /\ last'.op = "state" /\ C4_StateData(last'.data)) =>
               /\ last.cmd = None
               /\ last'.cmd = VoiceCommand(Triple(last'.data.session_id,
                                                  last.data.endpoint, last.data.token))
               /\ cmd' = last'.cmd
         /\ (last.op = "state" /\ last'.op = "server" /\ C4_StateData(last.data)) =>
               /\ last.cmd = None
               /\ last'.cmd = VoiceCommand(Triple(last.data.session_id,
                                                  last'.data.endpoint, last'.data.token))
               /\ cmd' = last'.cmd]_vars

\* C4 witness: the example of the specification: server credentials reached a
\* player without credentials, then the gateway state, which sent the triple
C4_ServerThenState ==
    /\ last.prev.op = "server"
    /\ last.prev.fresh
    /\ last.op = "state"
    /\ C4_StateData(last.data)
    /\ DOMAIN last.before.voice_state = {"endpoint", "token"}
    /\ Sent(last)
    /\ cmd = last.cmd

IsPlay(c) == c # None /\ c[1].kind = "play"

\* a start offset < 0 or an end offset < 1
BadOffsets(a) ==
    \/ a.start_time[1] = "int" /\ a.start_time[2] < 0
    \/ a.end_time[1] = "int" /\ a.end_time[2] < 1

\* C5: a step that begins a play_track call with a start offset < 0 or an end
\* offset < 1 raises a ValueError: no track.load is started and no coroutine is
\* left waiting, no command is handed to the node, no event is dispatched, and
\* _next, current, channel_id and the credentials are unchanged.
C5_BadOffsetsRejected ==
    [][(arg' # None /\ BadOffsets(arg'[1])) =>
          /\ ret' \in {Some("ValueError: track"), Some("ValueError: start_time"),
                       Some("ValueError: end_time")}
          /\ cmd' = None
          /\ event' = None
          /\ calls' = calls
          /\ UNCHANGED <<_next, current, channel_id, _voice_state>>]_vars

\* C5 witness: an end offset of 0 was rejected on a connected player with a pending track
C5_EndTimeRejectedWhilePending ==
    /\ arg # None
    /\ arg[1].end_time = PyInt(0)
    /\ ret = Some("ValueError: end_time")
    /\ _next # None
    /\ Complete(_voice_state)

\* max(0, min(v, 1000)), case by case
C6_Expected(v) == IF v < 0 THEN 0 ELSE IF v > 1000 THEN 1000 ELSE v

\* the call of the last step was given an integer volume
C6_Given(a) == a # None /\ a[1].volume[1] = "int"

\* C6: a play_track call with an integer volume v is not rejected for its
\* volume; the options it sends, or keeps while the track loads, have volume
\* max(0, min(v, 1000)); the command sent after the load carries the volume the
\* call kept; so every volume handed to the node lies in 0..1000.
C6_VolumeClamped ==
    [][/\ C6_Given(arg') =>
            /\ ret' # Some("TypeError: volume")
            /\ cmd' # None =>
                  Get(cmd'[1].options, "volume") = PyInt(C6_Expected(arg'[1].volume[2]))
            /\ \A c \in Calls :
                  (calls[c].pc = "idle" /\ calls'[c].pc = "load") =>
                      Get(calls'[c].options, "volume")
                          = PyInt(C6_Expected(arg'[1].volume[2]))
       /\ \A c \in Calls :
            (calls[c].pc = "load" /\ calls'[c].pc = "send") =>
                Get(cmd'[1].options, "volume") = Get(calls[c].options, "volume")
       /\ (IsPlay(cmd') /\ "volume" \in DOMAIN cmd'[1].options) =>
            /\ cmd'[1].options["volume"][1] = "int"
            /\ cmd'[1].options["volume"][2] \in 0..1000]_vars

\* C6 witness: the deferred track was sent, after its load, with the volume -1 clamped to 0
C6_ClampedAfterLoad ==
    /\ IsPlay(cmd)
    /\ cmd[1].track = "d1"
    /\ Get(cmd[1].options, "volume") = PyInt(0)

\* a load that fails: LoadError, or no playable payload
LoadFailed(r) == r.raised \/ r.value = None

\* C7: when the load of a deferred track fails, the step after the load
\* dispatches one TrackLoadFailedEvent for the track, hands no command to the
\* node, returns None to the caller and leaves _next and current unchanged;
\* the step that started the load dispatched nothing, sent nothing and left
\* _next and current unchanged too.
C7_LoadFailureNotifies ==
    [][/\ \A c \in Calls, r \in LoadOutcomes :
            (calls[c].pc = "load" /\ LoadFailed(r) /\ play_track_loaded(c, r)) =>
                /\ event' = Some([kind |-> "TrackLoadFailedEvent",
                                  track |-> calls[c].track[1],
                                  error |-> IF r.raised THEN Some("LoadError") ELSE None])
                /\ cmd' = None
                /\ ret' = Some("return None")
                /\ calls'[c] = IdleCall
                /\ UNCHANGED <<_next, current>>
       /\ \A c \in Calls :
            (calls[c].pc = "idle" /\ calls'[c].pc = "load") =>
                /\ event' = None
                /\ cmd' = None
                /\ ret' = None
                /\ UNCHANGED <<_next, current>>]_vars

\* C7 witness: a load failed while another track was pending and one was playing
C7_LoadFailedWhilePending ==
    /\ event # None
    /\ event[1].kind = "TrackLoadFailedEvent"
    /\ ret = Some("return None")
    /\ _next # None
    /\ current # None

\* C8: a step that hands a play command for a track to the node is the step
\* that sets _next to that track: when the command is issued, _next is the track.
C8_NextSetWhenCommandIssued ==
    IsPlay(cmd) => _next = Some(cmd[1].track)

\* C8 witness: the command for d1 was issued, after its load, while a command
\* for a1 was still awaiting the node
C8_IssuedWhileOtherInFlight ==
    /\ IsPlay(cmd)
    /\ cmd[1].track = "d1"
    /\ _next = Some("d1")
    /\ \E c \in Calls : calls[c].pc = "send" /\ calls[c].track = Some("a1")

\* C9: no step of play_track changes current, whether the command is
\* accepted, rejected or never sent; current changes only in a step of
\* handle_event. (A step of play_track begins a call, which sets arg, or
\* resumes a coroutine, which changes calls.)
C9_PlayTrackKeepsCurrent ==
    [][/\ (arg' # None \/ calls' # calls) => current' = current
       /\ current' # current => HandleEvent]_vars

\* C9 witness: the node accepted the command for one track while another is
\* still the current one
C9_AcceptedButNotCurrent ==
    /\ ret = Some("return RawPlayer")
    /\ current # None
    /\ _next # None
    /\ _next # current

(***************************************************************************)
(* Properties of destroy (under SpecLife).                                 *)
(***************************************************************************)
\* a step that begins an operation on the player: a play_track call or a
\* credential handler
BeginsOperation == arg' # None \/ last'.seq # last.seq

\* C11 (as claimed): once the player has been destroyed, every operation begun
\* on it (play_track, a server-credential update, a gateway-state update) fails
\* with an "already destroyed" error and hands no command to the node.
C11_DestroyedRejects ==
    [][(destroys > 0 /\ BeginsOperation) =>
          (ret' = Some("AlreadyDestroyed") /\ cmd' = None)]_vars

\* C12: the first destroy() removes the player's room from the room map, and
\* only that room; a second destroy() leaves the room map (and the node
\* bindings) unchanged; neither call raises.
C12_DestroyIdempotent ==
    [][destroys' # destroys =>
          /\ ret' = Some("return None")
          /\ players' = players \ {GuildId}
          /\ destroys = 0 => (GuildId \in players /\ GuildId \notin players')
          /\ destroys > 0 => (players' = players /\ binding' = binding)]_vars

\* C12 witness: destroy() was called a second time, on the player already
\* removed, and returned; the other room still has its player
C12_DestroyedTwice ==
    /\ destroys = 2
    /\ ret = Some("return None")
    /\ GuildId \notin players
    /\ players # {}

(***************************************************************************)
(* The fields each credential handler writes (under SpecVoice).            *)
(***************************************************************************)
\* the key k is stored after the step as it was before it
SameEntry(k) ==
    /\ (k \in DOMAIN _voice_state') = (k \in DOMAIN _voice_state)
    /\ Get(_voice_state', k) = Get(_voice_state, k)

\* C13: a server-credential update changes neither channel_id nor the stored
\* session id; a gateway-state update whose channel id is present (a string
\* that converts to a channel id other than 0) changes neither the stored
\* endpoint nor the stored token; neither handler changes _next, current or
\* the node the player is bound to.
C13_HandlersWriteOwnFields ==
    [][last'.seq # last.seq =>
          /\ last'.op = "server" =>
                (channel_id' = channel_id /\ SameEntry("sessionId"))
          /\ (last'.op = "state" /\ ~NoChannel(ChannelIdOf(last'.data.channel_id))) =>
                (SameEntry("endpoint") /\ SameEntry("token"))
          /\ _next' = _next
          /\ current' = current
          /\ binding' = binding]_vars

\* C13 witness: a gateway-state update stored a new session id next to the
\* endpoint and token of an earlier server-credential update, which had found
\* the channel and the session id of the update before it
C13_BothHandlersWrote ==
    /\ last.op = "state"
    /\ last.prev.op = "server"
    /\ ~last.prev.fresh
    /\ ~NoChannel(channel_id)
    /\ last.before.channel_id = channel_id
    /\ AllKnown(_voice_state)
    /\ AllKnown(last.before.voice_state)
    /\ _voice_state["sessionId"] # last.before.voice_state["sessionId"]
    /\ _voice_state["endpoint"] = last.before.voice_state["endpoint"]

(***************************************************************************)
(* Properties of the managers (under SpecNodes).                           *)
(***************************************************************************)
\* C14: when a node is marked unavailable while another node is available,
\* every player bound to it gets one change_node call and is then bound to an
\* available node other than the failed one; the players bound to any other
\* node get no change_node call and keep their node; the room map is unchanged.
C14_FailoverMigratesOnce ==
    [][\A n \in Nodes :
          (available[n] /\ ~available'[n] /\ \E o \in Nodes \ {n} : available[o]) =>
              /\ \A r \in Rooms :
                    IF binding[r] = n
                    THEN /\ migrated'[r] = 1
                         /\ binding'[r] \in Nodes \ {n}
                         /\ available'[binding'[r]]
                    ELSE /\ migrated'[r] = 0
                         /\ binding'[r] = binding[r]
              /\ players' = players]_vars

\* C14 witness: the first node failed with two players on it while the second
\* was available with one player; both were moved to the second node
C14_TwoPlayersMoved ==
    /\ ~available[1]
    /\ available[2]
    /\ migrated = [r \in Rooms |-> IF r = 3 THEN 0 ELSE 1]
    /\ binding = [r \in Rooms |-> IF r <= 3 THEN 2 ELSE binding[r]]

\* C15: selectNode returns an available node with the lowest player count
\* among the available nodes, the earliest registered of those; it fails with
\* "no available node" exactly when no registered node is available.
C15_SelectsLeastLoaded ==
    [][selected' # None =>
          LET n == selected'[1]
          IN /\ n = 0 <=> (\A o \in Nodes : ~available[o])
             /\ n = 0 => ret' = Some("NoAvailableNode")
             /\ n # 0 =>
                   /\ available[n]
                   /\ \A o \in Nodes :
                         available[o] =>
                             \/ PlayerCount(n, binding) < PlayerCount(o, binding)
                             \/ PlayerCount(n, binding) = PlayerCount(o, binding) /\ n <= o]_vars

\* C15 witness: the example of the specification: with two players on the
\* first node and one on the second, both available, selectNode gave the second
C15_SecondNodeSelected ==
    /\ selected = Some(2)
    /\ ret = Some("return Node")
    /\ available[1]
    /\ available[2]
    /\ PlayerCount(1, binding) = 2
    /\ PlayerCount(2, binding) = 1

(***************************************************************************)
(* Properties of event dispatch (under SpecEvents).                        *)
(***************************************************************************)
\* the registered listeners whose declared interest is empty or holds the kind
Interested(kind) ==
    {l \in Listeners :
        /\ hooks[l] # None
        /\ \/ hooks[l][1].declared = <<>>
           \/ kind \in Elements(hooks[l][1].declared)}

\* C16: a dispatched event is delivered to every registered listener whose
\* declared interest is empty or contains the event's kind, and to no other;
\* listeners that raise neither keep it from the others nor make the dispatch
\* raise to its caller.
C16_DeliveredToMatching ==
    delivered # None =>
        /\ delivered[1] = Interested(event[1].kind)
        /\ ret = Some("return None")

\* C16 witness: the first listener, declared for all events, raises; the
\* second is declared for another kind; the third, declared for this kind,
\* got the event after the first
C16_DeliveredPastRaisingListener ==
    /\ delivered = Some({1, 3})
    /\ hooks[1] # None /\ hooks[1][1].raises /\ hooks[1][1].declared = <<>>
    /\ hooks[2] # None /\ hooks[2][1].declared = <<"TrackStartEvent">>
    /\ hooks[3] # None /\ hooks[3][1].declared = <<"TrackLoadFailedEvent">>
    /\ event[1].kind = "TrackLoadFailedEvent"

(***************************************************************************)
(* Further properties of play_track (under SpecPlay).                      *)
(***************************************************************************)
\* the track has no payload of its own and is a deferred track
NeedsLoad(t) == t.track = None /\ IsDeferred(t)

\* C17: within one play_track call track.load is called at most once, and
\* only for a deferred track without payload. A track with a payload is sent
\* at once, with its own payload and without a load; a track that needs a
\* load is sent only in the step that follows the load, with the payload the
\* load returned; after the load the call does not load again.
C17_LoadedAtMostOnce ==
    [][/\ \A c \in Calls :
            /\ calls'[c].loads <= 1
            /\ calls'[c].pc = "load" =>
                  (calls'[c].loads = 1 /\ NeedsLoad(TrackOf(calls'[c].track[1])))
            /\ calls[c].pc \in {"load", "send"} =>
                  (calls'[c].pc = "load" => calls'[c] = calls[c])
            /\ (calls[c].pc = "idle" /\ calls'[c].pc = "send") =>
                  /\ calls'[c].loads = 0
                  /\ arg'[1].track.track # None
                  /\ cmd'[1].encoded_track = arg'[1].track.track[1]
       /\ (arg' # None /\ IsAudioTrack(arg'[1].track) /\ arg'[1].track.track = None) =>
            cmd' = None
       /\ \A c \in Calls, r \in LoadOutcomes :
            (calls[c].pc = "load" /\ ~LoadFailed(r) /\ play_track_loaded(c, r)) =>
                /\ IsPlay(cmd')
                /\ cmd'[1].track = calls[c].track[1]
                /\ cmd'[1].encoded_track = r.value[1]
                /\ calls'[c].loads = 1]_vars

\* C17 witness: the deferred track was sent after its one load, with the
\* payload p2 that only a load returns
C17_SentLoadedPayload ==
    /\ IsPlay(cmd)
    /\ cmd[1].track = "d1"
    /\ cmd[1].encoded_track = "p2"
    /\ \E c \in Calls :
          calls[c] = [pc |-> "send", track |-> Some("d1"), options |-> EmptyDict,
                      loads |-> 1]

\* a step of a play_track call: it begins a call or resumes a coroutine
PlayTrackStep == arg' # None \/ calls' # calls

\* C18: however the play_track calls interleave, a step of a call that hands
\* a play command to the node leaves _next at the track of that command, and
\* a step of a call that hands over none leaves _next as it was: after every
\* such step _next is the track of the command handed over last.
C18_NextFollowsLastCommand ==
    [][PlayTrackStep =>
          /\ IsPlay(cmd') => _next' = Some(cmd'[1].track)
          /\ cmd' = None => _next' = _next]_vars

\* C18 witness: while the command for a1 awaits its answer, the load of d1
\* ended and its command was handed over: _next went from a1 to d1
C18_LaterCommandSupersedes ==
    /\ IsPlay(cmd)
    /\ cmd[1].track = "d1"
    /\ _next = Some("d1")
    /\ \E c1, c2 \in Calls :
          /\ calls[c1].pc = "send" /\ calls[c1].track = Some("d1") /\ calls[c1].loads = 1
          /\ calls[c2].pc = "send" /\ calls[c2].track = Some("a1")

\* the step in which call c learns that the node rejected its command
Rejected(c) ==
    calls[c].pc = "send" /\ calls'[c].pc = "idle" /\ ret' = Some("RequestError")

\* C19: when the node rejects the play command, the call raises the error to
\* its caller and ends: it hands no further command to the node, dispatches
\* no event, and leaves _next and current as they were; when the command was
\* the last one handed over, _next stays at the requested track.
C19_RejectionKeepsNext ==
    [][\A c \in Calls :
          Rejected(c) =>
              /\ calls'[c] = IdleCall
              /\ cmd' = None
              /\ event' = None
              /\ _next' = _next
              /\ current' = current
              /\ (IsPlay(cmd) /\ Some(cmd[1].track) = calls[c].track) =>
                    _next' = calls[c].track]_vars

\* C19 witness: a1 is the current track and d1 was requested; the node
\* rejected the command, and _next is still d1
C19_RejectedNotRolledBack ==
    /\ ret = Some("RequestError")
    /\ _next = Some("d1")
    /\ current = Some("a1")
    /\ \A c \in Calls : calls[c] = IdleCall

(***************************************************************************)
(* The session id and the channel (under SpecVoice).                       *)
(***************************************************************************)
\* C20: whenever a session id is stored, channel_id is present; a session id
\* is stored only by a gateway-state update whose channel id is present, and
\* none is stored after one whose channel id is absent; so no voice-state
\* command is handed to the node while channel_id is absent.
C20_SessionImpliesChannel ==
    /\ "sessionId" \in DOMAIN _voice_state => channel_id # None
    /\ (cmd # None /\ cmd[1].kind = "voice") => channel_id # None
    /\ (Handled /\ "sessionId" \in DOMAIN _voice_state
               /\ "sessionId" \notin DOMAIN last.before.voice_state) =>
          (last.op = "state" /\ last.data.channel_id # None)
    /\ (last.op = "state" /\ last.data.channel_id = None) =>
          "sessionId" \notin DOMAIN _voice_state

\* C20 witness: after a disconnect a server-credential update stored endpoint
\* and token, and no command was sent: the session id was gone
C20_NoCommandWhileDisconnected ==
    /\ last.op = "server"
    /\ last.prev.op = "state"
    /\ channel_id = None
    /\ DOMAIN last.before.voice_state = {}
    /\ DOMAIN _voice_state = {"endpoint", "token"}
    /\ last.before.node_voice # None
    /\ cmd = None

====
